---- MODULE Spec2Model ----
(***************************************************************************)
(* Model of mstranslator.py: the AccessToken bearer-token cache and the    *)
(* Translator operations built on it.                                      *)
(*                                                                         *)
(* Conventions.  Time is counted in minutes (expire_delta is 9 minutes).   *)
(* A Python str is a sequence of lexemes: a lexeme is either one of the    *)
(* literal substrings the code searches for (the two exception tags and    *)
(* the ": " that follows a tag) or an opaque character.  A token text is   *)
(* the serial number the authentication endpoint gave it, 0 being the      *)
(* empty text.  None is NoneVal.                                           *)
(***************************************************************************)
EXTENDS Integers, Sequences, FiniteSets

VARIABLES now, _token, _expdate, issuedAt, last,
          pc, resp, ret,
          argText, srvLengths, srvData

vars == <<now, _token, _expdate, issuedAt, last, pc, resp, ret,
          argText, srvLengths, srvData>>

(***************************************************************************)
(* Bounds of the model.                                                    *)
(***************************************************************************)
MaxTime == 11
MaxTokens == 3
MaxTextLen == 3
MaxLengths == 3
MaxStrLen == 4

(***************************************************************************)
(* Program constants.                                                      *)
(***************************************************************************)
NoneVal == -1
EmptyText == 0
\* the validity the server gives a token (comment of expire_delta)
ServerValidity == 10

expire_delta_server == ServerValidity

expire_delta_long == ServerValidity + 1

\* AccessToken.expire_delta
expire_delta == 9

StatusOK == 200
MaxBreakLen == 10000
MaxOrigLen == 1000
MaxTransLen == 2000
RatingLow == -10
RatingHigh == 10

TagArg == "ArgumentOutOfRangeException"
TagApi == "TranslateApiException"
Sep == ": "

(***************************************************************************)
(* The authentication endpoint (spec section 6): 200 with the token as the *)
(* body, or another status with a JSON body holding a message.             *)
(***************************************************************************)
AuthFailures ==
    {[status_code |-> 401, text |-> EmptyText, message |-> <<"bad key">>],
     [status_code |-> 403, text |-> EmptyText, message |-> <<"quota">>]}

NextSerial == Len(issuedAt) + 1

AuthResponses ==
    {[status_code |-> StatusOK, text |-> NextSerial, message |-> <<>>]}
    \cup AuthFailures

(***************************************************************************)
(* class AccessError: status_code and data["message"] of the response.     *)
(***************************************************************************)
AccessError_nostatus(r) == [kind |-> "AccessError", status_code |-> 0,
                            message |-> r.message]

AccessError(r) == [kind |-> "AccessError", status_code |-> r.status_code,
                   message |-> r.message]

NoError == [kind |-> "none", status_code |-> 0, message |-> <<>>]

(***************************************************************************)
(* class AccessToken                                                       *)
(***************************************************************************)
\* `not self._token`: None and the empty text are false.
Falsy(tok) == tok = NoneVal \/ tok = EmptyText

expired_at(t, exp) == t >= exp

\* property expired: datetime.now() > self._expdate
expired(t, exp) == t > exp

\* the comparison of a datetime with None raises TypeError
expiredRaises(exp) == exp = NoneVal

needs_token_unset(tok, exp, t) == Falsy(tok)

\* the condition of `if not self._token or self.expired` (short-circuit or)
needs_token(tok, exp, t) == Falsy(tok) \/ expired(t, exp)

\* self._token = resp.text
assign_token(r) == r.text

assign_expdate_skipped(t) == _expdate

\* self._expdate = datetime.datetime.now() + self.expire_delta
assign_expdate(t) == t + expire_delta

request_token_clobber(tok, exp, r, t) ==
    IF r.status_code = StatusOK
    THEN [_token |-> assign_token(r), _expdate |-> assign_expdate(t),
          raised |-> NoError]
    ELSE [_token |-> assign_token(r), _expdate |-> exp,
          raised |-> AccessError(r)]

\* request_token: the state after the POST answered r at time t
request_token(tok, exp, r, t) ==
    IF r.status_code = StatusOK
    THEN [_token |-> assign_token(r), _expdate |-> assign_expdate(t),
          raised |-> NoError]
    ELSE [_token |-> tok, _expdate |-> exp, raised |-> AccessError(r)]

\* property token: the state after the call, the number of POSTs it made,
\* and the value it returns (when nothing was raised)
token(tok, exp, r, t) ==
    IF needs_token(tok, exp, t)
    THEN LET s == request_token(tok, exp, r, t)
         IN  [_token |-> s._token, _expdate |-> s._expdate,
              raised |-> s.raised, posts |-> 1, value |-> s._token]
    ELSE [_token |-> tok, _expdate |-> exp, raised |-> NoError,
          posts |-> 0, value |-> tok]

\* __call__: the Authorization header put on the prepared request
Bearer(tok) == <<"Bearer ", tok>>

(***************************************************************************)
(* Decoded JSON values: a string, a list of integers or a number.          *)
(***************************************************************************)
JStr(s) == [type |-> "str", val |-> s]
JList(l) == [type |-> "list", val |-> l]
JNum == [type |-> "num", val |-> <<>>]
JNone == [type |-> "none", val |-> <<>>]

\* data.startswith(tag), for a tag that is one lexeme
StartsWith(s, tag) == Len(s) >= 1 /\ s[1] = tag

\* str.replace(pat, ''): every non-overlapping occurrence of pat, scanning
\* from the left, is removed
RECURSIVE Replace(_, _)
Replace(s, pat) ==
    IF Len(s) < Len(pat) THEN s
    ELSE IF SubSeq(s, 1, Len(pat)) = pat
         THEN Replace(SubSeq(s, Len(pat) + 1, Len(s)), pat)
         ELSE <<s[1]>> \o Replace(Tail(s), pat)

\* ArgumentOutOfRangeException.__init__ / TranslateApiException.__init__
TaggedError(tag, message) ==
    [kind |-> tag, status_code |-> 0, message |-> Replace(message, <<tag, Sep>>)]

ValueError == [kind |-> "ValueError", status_code |-> 0, message |-> <<>>]
TypeError == [kind |-> "TypeError", status_code |-> 0, message |-> <<>>]
AttributeError == [kind |-> "AttributeError", status_code |-> 0, message |-> <<>>]

(***************************************************************************)
(* class Translator                                                        *)
(***************************************************************************)
\* make_response: the exception raised, or the value returned
make_response(data) ==
    IF data.type = "str" /\ StartsWith(data.val, TagArg)
    THEN [raised |-> TaggedError(TagArg, data.val), value |-> JNone]
    ELSE IF data.type = "str" /\ StartsWith(data.val, TagApi)
         THEN [raised |-> TaggedError(TagApi, data.val), value |-> JNone]
         ELSE [raised |-> NoError, value |-> data]

\* the outcome of one call: the AccessToken fields after it, what it raised
\* or returned, the requests it sent (posts to the authentication endpoint,
\* gets to the translation endpoint with their Authorization header, fetches
\* of an audio URL) and the number of reads of AccessToken.token
Outcome(tok, exp, raised, value, posts, gets, header) ==
    [_token |-> tok, _expdate |-> exp, raised |-> raised, value |-> value,
     posts |-> posts, gets |-> gets, header |-> header,
     reads |-> 0, fetches |-> 0, pieces |-> <<>>, written |-> FALSE]

\* a ValueError raised by an argument check
Invalid(tok, exp) == Outcome(tok, exp, ValueError, JNone, 0, 0, <<>>)

\* make_request: requests.get calls self.auth on the prepared request (an
\* AccessError there means the GET is never sent), then make_response
make_request(tok, exp, authR, data, t) ==
    LET a == token(tok, exp, authR, t)
    IN  IF a.raised.kind # "none"
        THEN [Outcome(a._token, a._expdate, a.raised, JNone, a.posts, 0, <<>>)
                 EXCEPT !.reads = 1]
        ELSE LET r == make_response(data)
             IN  [Outcome(a._token, a._expdate, r.raised, r.value, a.posts, 1,
                          Bearer(a.value)) EXCEPT !.reads = 1]

ContentTypes == {"text/plain", "text/html"}

\* _translate
_translate(lang_to, contenttype, tok, exp, authR, data, t) ==
    IF lang_to = ""
    THEN Invalid(tok, exp)
    ELSE IF contenttype \notin ContentTypes
         THEN Invalid(tok, exp)
         ELSE make_request(tok, exp, authR, data, t)

\* text[start:stop] of Python: a negative index counts from the end, and
\* both are clamped to the text
PyIndex(i, n) ==
    LET j == IF i < 0 THEN i + n ELSE i
    IN  IF j < 0 THEN 0 ELSE IF j > n THEN n ELSE j

PySlice(text, start, stop) ==
    SubSeq(text, PyIndex(start, Len(text)) + 1, PyIndex(stop, Len(text)))

RECURSIVE Slices_nocarry(_, _, _)
Slices_nocarry(text, lengths, c) ==
    IF lengths = <<>> THEN <<>>
    ELSE <<PySlice(text, c, c + Head(lengths))>>
         \o Slices_nocarry(text, Tail(lengths), c)

\* the loop of break_sentences: c is the running offset
RECURSIVE Slices(_, _, _)
Slices(text, lengths, c) ==
    IF lengths = <<>> THEN <<>>
    ELSE <<PySlice(text, c, c + Head(lengths))>>
         \o Slices(text, Tail(lengths), c + Head(lengths))

\* break_sentences
break_sentences(text, tok, exp, authR, data, t) ==
    IF Len(text) > MaxBreakLen
    THEN Invalid(tok, exp)
    ELSE LET r == make_request(tok, exp, authR, data, t)
         IN  IF r.raised.kind # "none" THEN r
             ELSE IF data.type = "list"
                  THEN [r EXCEPT !.value = JNone,
                                 !.pieces = Slices(text, data.val, 0)]
                  ELSE IF data.type = "str" /\ data.val = <<>>
                       THEN [r EXCEPT !.value = JNone]
                       ELSE [r EXCEPT !.value = JNone, !.raised = TypeError]

\* add_translation
add_translation(len_orig, len_trans, contenttype, rating, tok, exp, authR, data, t) ==
    IF len_orig > MaxOrigLen
    THEN Invalid(tok, exp)
    ELSE IF len_trans > MaxTransLen
         THEN Invalid(tok, exp)
         ELSE IF contenttype \notin ContentTypes
              THEN Invalid(tok, exp)
              ELSE IF ~(RatingLow < rating.value /\ rating.value < RatingHigh)
                      \/ ~rating.isint
                   THEN Invalid(tok, exp)
                   ELSE make_request(tok, exp, authR, data, t)

AudioFormats == {"audio/wav", "audio/mp3"}

\* speak
speak(format, tok, exp, authR, data, t) ==
    IF format \notin AudioFormats
    THEN Invalid(tok, exp)
    ELSE make_request(tok, exp, authR, data, t)

\* speak_to_file: file is a path ("path"), an object with a write method
\* ("sink") or anything else ("other")
speak_to_file(file, format, tok, exp, authR, data, t) ==
    LET r == speak(format, tok, exp, authR, data, t)
    IN  IF r.raised.kind # "none" THEN r
        ELSE LET f == [r EXCEPT !.fetches = 1, !.value = JNone]
             IN  IF file = "path"
                 THEN [f EXCEPT !.raised = AttributeError]
                 ELSE IF file = "sink"
                      THEN [f EXCEPT !.written = TRUE]
                      ELSE [f EXCEPT !.raised = ValueError]

(***************************************************************************)
(* Inputs of the operations and answers of the translation endpoint.       *)
(***************************************************************************)
TranslateArgs ==
    {[lang_to |-> "", contenttype |-> "text/plain"],
     [lang_to |-> "en", contenttype |-> "text/plain"],
     [lang_to |-> "en", contenttype |-> "text/html"],
     [lang_to |-> "en", contenttype |-> "text/xml"]}

\* a rating is its value and whether it is an int
Rating(v, isint) == [value |-> v, isint |-> isint]

AddArg(lo, lt, ct, rating) ==
    [len_orig |-> lo, len_trans |-> lt, contenttype |-> ct, rating |-> rating]

AddTranslationArgs ==
    {AddArg(MaxOrigLen, MaxTransLen, "text/plain", Rating(1, TRUE)),
     AddArg(MaxOrigLen + 1, MaxTransLen, "text/plain", Rating(1, TRUE)),
     AddArg(MaxOrigLen, MaxTransLen + 1, "text/plain", Rating(1, TRUE)),
     AddArg(MaxOrigLen, MaxTransLen, "text/xml", Rating(1, TRUE)),
     AddArg(0, 0, "text/html", Rating(RatingLow, TRUE)),
     AddArg(0, 0, "text/html", Rating(RatingLow + 1, TRUE)),
     AddArg(0, 0, "text/html", Rating(RatingHigh - 1, TRUE)),
     AddArg(0, 0, "text/html", Rating(RatingHigh, TRUE)),
     AddArg(0, 0, "text/html", Rating(5, FALSE))}

FormatArgs == {"audio/wav", "audio/mp3", "audio/ogg"}

SpeakToFileArgs ==
    {[file |-> f, format |-> "audio/wav"] : f \in {"path", "sink", "other"}}
    \cup {[file |-> "sink", format |-> "audio/mp3"],
          [file |-> "sink", format |-> "audio/ogg"],
          [file |-> "other", format |-> "audio/ogg"]}

LongText == [i \in 1..(MaxBreakLen + 1) |-> "a"]
TextArgs == {<<>>, <<"a", "b", "c">>, LongText}

ApiData == {JStr(<<"x">>), JStr(<<TagApi, Sep, "x">>)}

(***************************************************************************)
(* The client used by one caller at a time: every operation runs to its    *)
(* end before the next one starts, and the clock advances between them.    *)
(***************************************************************************)
NoResp == [status_code |-> 0, text |-> EmptyText, message |-> <<>>]

\* last: the latest call, its outcome and what the authentication endpoint
\* answered to its POST
NoCall == [op |-> "none", raised |-> NoError, value |-> JNone, posts |-> 0,
           gets |-> 0, fetches |-> 0, reads |-> 0, header |-> <<>>,
           pieces |-> <<>>, written |-> FALSE, auth |-> NoResp]

Threads == {1, 2}

NoReturn == [value |-> NoneVal, raised |-> "none"]

\* AccessToken.__init__ and a client no call was made on
Fresh ==
    /\ now = 0
    /\ _token = NoneVal
    /\ _expdate = NoneVal
    /\ issuedAt = <<>>
    /\ last = NoCall
    /\ pc = [t \in Threads |-> "idle"]
    /\ resp = [t \in Threads |-> NoResp]
    /\ ret = [t \in Threads |-> NoReturn]

Init ==
    /\ Fresh
    /\ argText = <<>>
    /\ srvLengths = <<>>
    /\ srvData = JNone

\* the state after a call with outcome r; the authentication endpoint issues
\* a token whenever it answers a POST with 200
Commit(op, r, authR) ==
    LET issues == r.posts = 1 /\ authR.status_code = StatusOK
    IN  /\ issues => Len(issuedAt) < MaxTokens
        /\ _token' = r._token
        /\ _expdate' = r._expdate
        /\ issuedAt' = IF issues THEN Append(issuedAt, now) ELSE issuedAt
        /\ last' = [op |-> op, raised |-> r.raised, value |-> r.value,
                    posts |-> r.posts, gets |-> r.gets, fetches |-> r.fetches,
                    reads |-> r.reads, header |-> r.header,
                    pieces |-> r.pieces, written |-> r.written,
                    auth |-> IF r.posts = 1 THEN authR ELSE NoResp]
        /\ UNCHANGED <<now, pc, resp, ret, argText, srvLengths, srvData>>

Tick ==
    /\ now < MaxTime
    /\ now' = now + 1
    /\ UNCHANGED <<_token, _expdate, issuedAt, last, pc, resp, ret,
                   argText, srvLengths, srvData>>

Translate ==
    \E a \in TranslateArgs, authR \in AuthResponses, data \in ApiData :
        Commit("translate",
               _translate(a.lang_to, a.contenttype, _token, _expdate, authR, data, now), authR)

TranslateArray ==
    \E a \in TranslateArgs, authR \in AuthResponses, data \in ApiData :
        Commit("translate_array",
               _translate(a.lang_to, a.contenttype, _token, _expdate, authR, data, now), authR)

TranslateArray2 ==
    \E a \in TranslateArgs, authR \in AuthResponses, data \in ApiData :
        Commit("translate_array2",
               _translate(a.lang_to, a.contenttype, _token, _expdate, authR, data, now), authR)

\* get_translations, get_langs, get_lang_names, detect_lang and detect_langs
\* check nothing and call make_request
Plain(op, D) ==
    \E authR \in AuthResponses, data \in D :
        Commit(op, make_request(_token, _expdate, authR, data, now), authR)

GetTranslations == Plain("get_translations", ApiData)
GetLangs == Plain("get_langs", ApiData)
GetLangNames == Plain("get_lang_names", ApiData)
DetectLang == Plain("detect_lang", ApiData)
DetectLangs == Plain("detect_langs", ApiData)

BreakSentencesOn(T, D) ==
    \E text \in T, authR \in AuthResponses, data \in D :
        Commit("break_sentences",
               break_sentences(text, _token, _expdate, authR, data, now), authR)

BreakSentences ==
    BreakSentencesOn(TextArgs, {JList(<<1, 2>>), JList(<<2>>), JStr(<<"x">>),
                                JStr(<<TagArg, Sep, "x">>)})

AddTranslation ==
    \E a \in AddTranslationArgs, authR \in AuthResponses, data \in ApiData :
        Commit("add_translation",
               add_translation(a.len_orig, a.len_trans, a.contenttype,
                               a.rating, _token, _expdate, authR, data, now),
               authR)

Speak ==
    \E format \in FormatArgs, authR \in AuthResponses, data \in ApiData :
        Commit("speak", speak(format, _token, _expdate, authR, data, now), authR)

SpeakToFile ==
    \E a \in SpeakToFileArgs, authR \in AuthResponses, data \in ApiData :
        Commit("speak_to_file",
               speak_to_file(a.file, a.format, _token, _expdate, authR, data, now),
               authR)

Next ==
    \/ Tick
    \/ Translate
    \/ TranslateArray
    \/ TranslateArray2
    \/ GetTranslations
    \/ GetLangs
    \/ GetLangNames
    \/ DetectLang
    \/ DetectLangs
    \/ BreakSentences
    \/ AddTranslation
    \/ Speak
    \/ SpeakToFile

Spec == Init /\ [][Next]_vars

(***************************************************************************)
(* Properties of the client used by one caller at a time (Spec).           *)
(***************************************************************************)
\* a step of Spec that is a call: the clock stands still
Call == now' = now

\* the window the claims state, and the server's validity
ClaimedWindow == 9

\* C1: after a successful issuance at time T, a call that reads the token at
\* a time up to T + 9 minutes makes no issuance request and uses the cached
\* token; a call after T + 9 minutes makes exactly one issuance request and,
\* when that is answered with 200, uses the newly issued token.
C1_ReuseThenOneReissue ==
    [][(Call /\ last'.reads = 1 /\ ~Falsy(_token))
        => LET T == issuedAt[_token]
           IN  IF now <= T + ClaimedWindow
               THEN /\ last'.posts = 0
                    /\ _token' = _token
                    /\ last'.header = Bearer(_token)
               ELSE /\ last'.posts = 1
                    /\ last'.auth.status_code = StatusOK
                        => /\ _token' = Len(issuedAt')
                           /\ _token' # _token
                           /\ issuedAt'[_token'] = now
                           /\ last'.header = Bearer(_token')]_vars

\* C1 witness: a second token was issued exactly one minute after the
\* window of the first one closed, and the call used it.
C1_Witness ==
    /\ Len(issuedAt) = 2
    /\ issuedAt[2] = issuedAt[1] + ClaimedWindow + 1
    /\ last.posts = 1
    /\ last.header = Bearer(2)

\* C2 as stated: the cached token is used only strictly before the
\* expiration; at now = expiration and later the call re-issues.
C2_StrictlyBefore ==
    [][(Call /\ last'.reads = 1 /\ ~Falsy(_token))
        => (last'.posts = 0 <=> now < _expdate)]_vars

\* C2 amended: the cached token is used up to and including the expiration
\* timestamp; the call re-issues only when now > expiration.
C2_UpToExpiration ==
    [][(Call /\ last'.reads = 1 /\ ~Falsy(_token))
        => /\ last'.posts = 0 <=> now <= _expdate
           /\ last'.posts = 1 <=> now > _expdate]_vars

\* C2 witness: a call made exactly at the expiration timestamp used the
\* cached token without an issuance request.
C2_Witness ==
    /\ ~Falsy(_token)
    /\ now = _expdate
    /\ last.reads = 1
    /\ last.posts = 0
    /\ last.gets = 1

\* C3: every GET to the translation endpoint carries Bearer + the token
\* that AccessToken.token gives at that moment, and that token's expiration
\* timestamp has not passed (nor has the server's validity).
C3_BearerNeverExpired ==
    [][(Call /\ last'.gets >= 1)
        => /\ last'.gets = 1
           /\ last'.reads = 1
           /\ ~Falsy(_token')
           /\ last'.header = Bearer(_token')
           /\ now <= _expdate'
           /\ now <= issuedAt'[_token'] + ServerValidity]_vars

\* C3 witness: after the first token expired and a second was issued, a
\* later call sent a GET with the second token, still cached.
C3_Witness ==
    /\ Len(issuedAt) = 2
    /\ now > issuedAt[2]
    /\ last.gets = 1
    /\ last.posts = 0
    /\ last.header = Bearer(2)

\* C4: a call that ends with ValueError has sent no request of any kind.
C4_ValueErrorBeforeNetwork ==
    last.raised.kind = "ValueError"
        => last.posts = 0 /\ last.gets = 0 /\ last.fetches = 0

\* C5: when the authentication endpoint answers a call's POST with a status
\* other than 200, the call ends with AccessError carrying that status and
\* the message of the body, after exactly one POST and without any GET.
C5_AccessErrorNoRetry ==
    (last.posts >= 1 /\ last.auth.status_code # StatusOK)
        => /\ last.raised.kind = "AccessError"
           /\ last.raised.status_code = last.auth.status_code
           /\ last.raised.message = last.auth.message
           /\ last.posts = 1
           /\ last.gets = 0
           /\ last.fetches = 0

\* C5 witness: a call whose POST was answered 403 ended with AccessError.
C5_Witness ==
    /\ last.auth.status_code = 403
    /\ last.raised.kind = "AccessError"
    /\ last.raised.status_code = 403
    /\ last.posts = 1

\* C10: a call that ends with AccessError leaves _token and _expdate as they
\* were, so the token is still unset or expired, and the next call that
\* reads the token makes an issuance request.
C10_FailedIssuanceFrame ==
    [][/\ (Call /\ last'.raised.kind = "AccessError")
            => /\ _token' = _token
               /\ _expdate' = _expdate
               /\ needs_token(_token', _expdate', now)
       /\ (Call /\ last.raised.kind = "AccessError" /\ last'.reads = 1)
            => last'.posts = 1]_vars

\* C10 witness: an issuance failed over a cached token that had expired,
\* and the expired token and its expiration are still in place.
C10_Witness ==
    /\ last.raised.kind = "AccessError"
    /\ last.auth.status_code = 401
    /\ _token = 1
    /\ _expdate = issuedAt[1] + expire_delta
    /\ now > _expdate

(***************************************************************************)
(* make_response over every decoded value (SpecResponse): the answer of    *)
(* the translation endpoint is drawn first, then detect_lang receives it.  *)
(***************************************************************************)
SeqsUpTo(S, n) == UNION {[1..k -> S] : k \in 0..n}

Lexemes == {TagArg, TagApi, Sep, "x"}

JsonValues ==
    {JStr(v) : v \in SeqsUpTo(Lexemes, MaxStrLen)}
    \cup {JList(<<>>), JList(<<1, 2>>), JNum}

InitResponse ==
    /\ Fresh
    /\ argText = <<>>
    /\ srvLengths = <<>>
    /\ srvData \in JsonValues

DetectLangAnswered == Plain("detect_lang", {srvData})

NextResponse == DetectLangAnswered

SpecResponse == InitResponse /\ [][NextResponse]_vars

\* the text that remains when the leading "<tag>: " is taken off
StripLeading(s, tag) ==
    IF Len(s) >= 2 /\ s[1] = tag /\ s[2] = Sep
    THEN SubSeq(s, 3, Len(s))
    ELSE s

\* C6: a string that begins with one of the two tags raises the error of
\* that tag, whose message is the string without its leading tag and
\* otherwise unchanged; every other value is returned unchanged.
C6_OnlyLeadingTagStripped ==
    last.gets = 1
        => IF srvData.type = "str" /\ StartsWith(srvData.val, TagArg)
           THEN /\ last.raised.kind = TagArg
                /\ last.raised.message = StripLeading(srvData.val, TagArg)
           ELSE IF srvData.type = "str" /\ StartsWith(srvData.val, TagApi)
                THEN /\ last.raised.kind = TagApi
                     /\ last.raised.message = StripLeading(srvData.val, TagApi)
                ELSE /\ last.raised = NoError
                     /\ last.value = srvData

(***************************************************************************)
(* break_sentences over every text and every list of lengths (SpecBreak):  *)
(* the text and the lengths the server answers are drawn first.            *)
(***************************************************************************)
Chars == {"a", "b"}

LenValues == (0 - 1)..MaxTextLen

InitBreak ==
    /\ Fresh
    /\ argText \in SeqsUpTo(Chars, MaxTextLen)
    /\ srvLengths \in SeqsUpTo(LenValues, MaxLengths)
    /\ srvData = JNone

BreakSentencesAnswered == BreakSentencesOn({argText}, {JList(srvLengths)})

NextBreak == BreakSentencesAnswered

SpecBreak == InitBreak /\ [][NextBreak]_vars

RECURSIVE Sum(_)
Sum(l) == IF l = <<>> THEN 0 ELSE Head(l) + Sum(Tail(l))

RECURSIVE Flatten(_)
Flatten(ps) == IF ps = <<>> THEN <<>> ELSE Head(ps) \o Flatten(Tail(ps))

\* pieces are the consecutive slices of text of the given lengths, and
\* together they are the text
Partitions(text, lengths, pieces) ==
    /\ Len(pieces) = Len(lengths)
    /\ \A i \in 1..Len(lengths) :
          LET start == Sum(SubSeq(lengths, 1, i - 1))
          IN  /\ Len(pieces[i]) = lengths[i]
              /\ start >= 0
              /\ start + lengths[i] <= Len(text)
              /\ \A k \in 1..lengths[i] : pieces[i][k] = text[start + k]
    /\ Flatten(pieces) = text

BrokeSentences == last.op = "break_sentences" /\ last.raised.kind = "none"

\* C7 as stated: for every text and every list of lengths returned by the
\* server, the pieces are the consecutive slices of those lengths and
\* concatenate to the text.
C7_AnyLengthsPartition ==
    BrokeSentences => Partitions(argText, srvLengths, last.pieces)

\* C7 amended: when the returned lengths are non-negative and sum to the
\* length of the text, the pieces are the consecutive slices of those
\* lengths and concatenate to the text.
C7_MatchingLengthsPartition ==
    (/\ BrokeSentences
     /\ \A i \in 1..Len(srvLengths) : srvLengths[i] >= 0
     /\ Sum(srvLengths) = Len(argText))
        => Partitions(argText, srvLengths, last.pieces)

\* C7 witness: "aba" with lengths 1, 2 was broken into "a" and "ba".
C7_Witness ==
    /\ BrokeSentences
    /\ argText = <<"a", "b", "a">>
    /\ srvLengths = <<1, 2>>
    /\ last.pieces = << <<"a">>, <<"b", "a">> >>

(***************************************************************************)
(* Two callers on one client (SpecConc).  Each thread runs make_request    *)
(* of an operation and so reads AccessToken.token, statement by statement: *)
(* the condition of the if, the POST of request_token, the assignment of   *)
(* _token, the assignment of _expdate, the return.  The condition reads    *)
(* _token and then _expdate; reading both in one step loses no outcome,    *)
(* since a write between the two reads gives the outcome of the condition  *)
(* evaluated after that write.  A call takes much less than the minute the *)
(* clock counts in, so the clock advances when no call is under way.       *)
(***************************************************************************)
\* `if not self._token or self.expired`
Check(t) ==
    /\ pc[t] = "idle"
    /\ IF Falsy(_token)
       THEN pc' = [pc EXCEPT ![t] = "post"] /\ ret' = ret
       ELSE IF expiredRaises(_expdate)
            THEN /\ pc' = [pc EXCEPT ![t] = "done"]
                 /\ ret' = [ret EXCEPT ![t] = [value |-> NoneVal,
                                               raised |-> "TypeError"]]
            ELSE IF expired(now, _expdate)
                 THEN pc' = [pc EXCEPT ![t] = "post"] /\ ret' = ret
                 ELSE pc' = [pc EXCEPT ![t] = "return"] /\ ret' = ret
    /\ UNCHANGED <<now, _token, _expdate, issuedAt, last, resp,
                   argText, srvLengths, srvData>>

\* resp = requests.post(...): the endpoint issues a token when it answers 200
Post(t) ==
    /\ pc[t] = "post"
    /\ \E r \in AuthResponses :
          /\ r.status_code = StatusOK => Len(issuedAt) < MaxTokens
          /\ resp' = [resp EXCEPT ![t] = r]
          /\ issuedAt' = IF r.status_code = StatusOK
                         THEN Append(issuedAt, now) ELSE issuedAt
    /\ pc' = [pc EXCEPT ![t] = "answered"]
    /\ UNCHANGED <<now, _token, _expdate, last, ret, argText, srvLengths,
                   srvData>>

\* if resp.status_code == 200: self._token = resp.text
SetToken(t) ==
    /\ pc[t] = "answered"
    /\ resp[t].status_code = StatusOK
    /\ _token' = assign_token(resp[t])
    /\ pc' = [pc EXCEPT ![t] = "set_expdate"]
    /\ UNCHANGED <<now, _expdate, issuedAt, last, resp, ret, argText,
                   srvLengths, srvData>>

\* else: raise AccessError(resp)
RaiseAccessError(t) ==
    /\ pc[t] = "answered"
    /\ resp[t].status_code # StatusOK
    /\ ret' = [ret EXCEPT ![t] = [value |-> NoneVal,
                                  raised |-> AccessError(resp[t]).kind]]
    /\ pc' = [pc EXCEPT ![t] = "done"]
    /\ UNCHANGED <<now, _token, _expdate, issuedAt, last, resp, argText,
                   srvLengths, srvData>>

\* self._expdate = datetime.datetime.now() + self.expire_delta
SetExpdate(t) ==
    /\ pc[t] = "set_expdate"
    /\ _expdate' = assign_expdate(now)
    /\ pc' = [pc EXCEPT ![t] = "return"]
    /\ UNCHANGED <<now, _token, issuedAt, last, resp, ret, argText,
                   srvLengths, srvData>>

\* return self._token
Return(t) ==
    /\ pc[t] = "return"
    /\ ret' = [ret EXCEPT ![t] = [value |-> _token, raised |-> "none"]]
    /\ pc' = [pc EXCEPT ![t] = "done"]
    /\ UNCHANGED <<now, _token, _expdate, issuedAt, last, resp, argText,
                   srvLengths, srvData>>

\* both calls are over; the callers may call again
Finish ==
    /\ \A t \in Threads : pc[t] = "done"
    /\ pc' = [t \in Threads |-> "idle"]
    /\ resp' = [t \in Threads |-> NoResp]
    /\ ret' = [t \in Threads |-> NoReturn]
    /\ UNCHANGED <<now, _token, _expdate, issuedAt, last, argText,
                   srvLengths, srvData>>

TickIdle ==
    /\ \A t \in Threads : pc[t] = "idle"
    /\ Tick

NextConc ==
    \/ TickIdle
    \/ Finish
    \/ \E t \in Threads : Check(t)
    \/ \E t \in Threads : Post(t)
    \/ \E t \in Threads : SetToken(t)
    \/ \E t \in Threads : RaiseAccessError(t)
    \/ \E t \in Threads : SetExpdate(t)
    \/ \E t \in Threads : Return(t)

SpecConc == Init /\ [][NextConc]_vars

\* both calls found the token unset or expired and had a token issued
BothReissued ==
    \A t \in Threads : pc[t] = "done" /\ resp[t].status_code = StatusOK

\* C8: when both calls found the cached token unset or expired, each made
\* its own issuance request; once both are over, the cached token is one of
\* the two new tokens, the cached expiration is within the 10 minutes the
\* server gives that token and has not passed, and each call returned one
\* of the new tokens, within its validity.
C8_RaceLastWriteWins ==
    BothReissued
        => /\ resp[1].text # resp[2].text
           /\ _token \in {resp[1].text, resp[2].text}
           /\ _expdate <= issuedAt[_token] + ServerValidity
           /\ ~expired(now, _expdate)
           /\ \A t \in Threads :
                 /\ ret[t].raised = "none"
                 /\ ret[t].value \in {resp[1].text, resp[2].text}
                 /\ now <= issuedAt[ret[t].value] + ServerValidity

\* C8 witness: both calls re-issued over an expired token, and the cached
\* token is the one issued first (the second assignment was made first).
C8_Witness ==
    /\ BothReissued
    /\ Len(issuedAt) = 3
    /\ issuedAt[3] > issuedAt[1] + expire_delta
    /\ _token = 2

\* C9 as stated: in every state, intermediate ones included, _expdate is
\* set whenever _token is set, and no expiry check meets an unset _expdate
\* (which raises TypeError).
C9_SetTogether ==
    /\ ~Falsy(_token) => _expdate # NoneVal
    /\ \A t \in Threads : ret[t].raised # "TypeError"

\* C9 amended: in every state in which no request_token stands between its
\* two assignments, _expdate is set whenever _token is set.
C9_SetTogetherOutsideAssignments ==
    (\A t \in Threads : pc[t] # "set_expdate")
        => (~Falsy(_token) => _expdate # NoneVal)

\* C9 witness: both calls are over after racing on the unset token, and
\* both fields are set.
C9_Witness ==
    /\ BothReissued
    /\ Len(issuedAt) = 2
    /\ ~Falsy(_token)
    /\ _expdate # NoneVal

====
